---------------------------- MODULE Spec2Model ----------------------------
(***************************************************************************)
(* Fee management application (src/app.py): the fee ledger calculator      *)
(* get_due_amount, the phone validator is_valid_phone, the SMS boundary    *)
(* send_sms and the route handlers that read and write the four tables.    *)
(*                                                                         *)
(* Strings are sequences of one-character strings, so that strip(),        *)
(* float(), strptime() and the phone regex are computed character by       *)
(* character.  Money is an integer number of currency units; the value     *)
(* returned by get_due_amount is held in hundredths of a unit, which makes *)
(* the 0.02 weekly rate exact.                                             *)
(***************************************************************************)
EXTENDS Integers, Sequences, FiniteSets, TLC

VARIABLES students, fee_structure, payments, fee_cycles, now, twilio_env, resp

vars == <<students, fee_structure, payments, fee_cycles, now, twilio_env, resp>>

store == <<students, fee_structure, payments, fee_cycles>>

(***************************************************************************)
(* Bounds of the model.                                                    *)
(***************************************************************************)
MaxStudents == 2
MaxPayments == 2
MaxCycles == 2
MaxTicks == 1
MaxExtraDigits == 16

(***************************************************************************)
(* Program constants.                                                      *)
(***************************************************************************)
LateRatePercent == 2
DaysPerWeek == 7
PhoneMinMore == 7
PhoneMaxMore == 14

(***************************************************************************)
(* Characters and strings.                                                 *)
(***************************************************************************)
DigitChars == <<"0", "1", "2", "3", "4", "5", "6", "7", "8", "9">>

IsDigit(c) == \E i \in 1..10 : DigitChars[i] = c

DigitVal(c) == (CHOOSE i \in 1..10 : DigitChars[i] = c) - 1

IsSpace(c) == c \in {" ", "\n", "\t"}

AllDigits(s, lo, hi) == \A i \in lo..hi : IsDigit(s[i])

RECURSIVE NumVal(_, _, _)
NumVal(s, lo, hi) ==
    IF hi < lo THEN 0 ELSE NumVal(s, lo, hi - 1) * 10 + DigitVal(s[hi])

RECURSIVE LStrip(_)
LStrip(s) == IF s # <<>> /\ IsSpace(Head(s)) THEN LStrip(Tail(s)) ELSE s

RECURSIVE RStrip(_)
RStrip(s) ==
    IF s # <<>> /\ IsSpace(s[Len(s)]) THEN RStrip(SubSeq(s, 1, Len(s) - 1)) ELSE s

\* str.strip()
Strip(s) == RStrip(LStrip(s))

\* float(s) for the decimal integer literals the forms submit: surrounding
\* whitespace is ignored, an optional sign, then digits; anything else
\* raises ValueError.
FloatOf(s) ==
    LET t == Strip(s)
        signed == t # <<>> /\ t[1] \in {"-", "+"}
        lo == IF signed THEN 2 ELSE 1
    IN  IF Len(t) >= lo /\ AllDigits(t, lo, Len(t))
        THEN [ok |-> TRUE,
              val |-> IF signed /\ t[1] = "-" THEN 0 - NumVal(t, lo, Len(t))
                      ELSE NumVal(t, lo, Len(t))]
        ELSE [ok |-> FALSE, val |-> 0]

(***************************************************************************)
(* datetime.strptime(s, '%Y-%m-%d')                                        *)
(***************************************************************************)
IsLeap(y) == (y % 4 = 0) /\ ((y % 100 # 0) \/ (y % 400 = 0))

DaysInMonth(y, m) ==
    IF m = 2 THEN (IF IsLeap(y) THEN 29 ELSE 28)
    ELSE IF m \in {4, 6, 9, 11} THEN 30 ELSE 31

RECURSIVE DaysBeforeMonth(_, _)
DaysBeforeMonth(y, m) ==
    IF m <= 1 THEN 0 ELSE DaysBeforeMonth(y, m - 1) + DaysInMonth(y, m - 1)

\* date.toordinal(): day 1 is 0001-01-01
ToOrdinal(y, m, d) ==
    (y - 1) * 365 + ((y - 1) \div 4) - ((y - 1) \div 100) + ((y - 1) \div 400)
    + DaysBeforeMonth(y, m) + d

\* number of characters the %m directive consumes at position p (0: no match)
MonthLen(s, p) ==
    IF p > Len(s) THEN 0
    ELSE IF p + 1 <= Len(s) /\ s[p] = "1" /\ s[p + 1] \in {"0", "1", "2"} THEN 2
    ELSE IF p + 1 <= Len(s) /\ s[p] = "0" /\ IsDigit(s[p + 1]) /\ s[p + 1] # "0" THEN 2
    ELSE IF IsDigit(s[p]) /\ s[p] # "0" THEN 1
    ELSE 0

\* number of characters the %d directive consumes at position p (0: no match)
DayLen(s, p) ==
    IF p > Len(s) THEN 0
    ELSE IF p + 1 <= Len(s) /\ s[p] = "3" /\ s[p + 1] \in {"0", "1"} THEN 2
    ELSE IF p + 1 <= Len(s) /\ s[p] \in {"1", "2"} /\ IsDigit(s[p + 1]) THEN 2
    ELSE IF p + 1 <= Len(s) /\ s[p] = "0" /\ IsDigit(s[p + 1]) /\ s[p + 1] # "0" THEN 2
    ELSE IF IsDigit(s[p]) /\ s[p] # "0" THEN 1
    ELSE IF p + 1 <= Len(s) /\ s[p] = " " /\ IsDigit(s[p + 1]) /\ s[p + 1] # "0" THEN 2
    ELSE 0

\* the value of the digits in s[lo..hi], a leading blank of %d skipped
FieldVal(s, lo, hi) == IF s[lo] = " " THEN NumVal(s, lo + 1, hi) ELSE NumVal(s, lo, hi)

\* ok = FALSE stands for ValueError; ord is the ordinal of the parsed
\* midnight.
StrpTime(s) ==
    LET bad == [ok |-> FALSE, ord |-> 0]
    IN  IF ~(Len(s) >= 5 /\ AllDigits(s, 1, 4) /\ s[5] = "-") THEN bad
        ELSE LET y == NumVal(s, 1, 4)
                 ml == MonthLen(s, 6)
                 q == 6 + ml
             IN  IF ml = 0 \/ q > Len(s) \/ s[q] # "-" THEN bad
                 ELSE LET dl == DayLen(s, q + 1)
                          m == NumVal(s, 6, q - 1)
                      IN  IF dl = 0 \/ q + dl # Len(s) THEN bad
                          ELSE LET d == FieldVal(s, q + 1, q + dl)
                               IN  IF y < 1 \/ d > DaysInMonth(y, m) THEN bad
                                   ELSE [ok |-> TRUE, ord |-> ToOrdinal(y, m, d)]

(***************************************************************************)
(* The calculator.                                                         *)
(***************************************************************************)
NoneResult == [none |-> TRUE, val |-> 0]

Num(v) == [none |-> FALSE, val |-> v]

RECURSIVE SumAmounts(_)
SumAmounts(rows) ==
    IF rows = <<>> THEN 0 ELSE Head(rows).amount_paid + SumAmounts(Tail(rows))

\* SELECT ... WHERE admission_no = adm
RowsOf(table, adm) == SelectSeq(table, LAMBDA r : r.admission_no = adm)

\* get_total_fee: None when the student or the class fee is missing
TotalFee(st, fs, adm) ==
    LET found == RowsOf(st, adm)
    IN  IF found = <<>> THEN NoneResult
        ELSE IF found[1].class \in DOMAIN fs THEN Num(fs[found[1].class])
        ELSE NoneResult

\* get_total_paid: SUM(amount_paid) or 0.0
TotalPaid(pay, adm) == SumAmounts(RowsOf(pay, adm))

\* today > due_date and (today - due_date).days, due_date at midnight
After(today, ord) == today.ord > ord \/ (today.ord = ord /\ today.tod > 0)

\* a started week counted as a whole week
CycleLateFee_CeilWeeks(due_date, total_fee, total_paid, today) ==
    LET p == StrpTime(due_date)
    IN  IF ~p.ok THEN 0
        ELSE IF After(today, p.ord)
             THEN LET weeks == (today.ord - p.ord + DaysPerWeek - 1) \div DaysPerWeek
                  IN  IF weeks > 0 /\ total_fee - total_paid > 0
                      THEN (total_fee - total_paid) * LateRatePercent * weeks
                      ELSE 0
             ELSE 0

\* one iteration of the loop over the cycles; the value is the increment of
\* late_fee in hundredths of a unit
CycleLateFee(due_date, total_fee, total_paid, today) ==
    LET p == StrpTime(due_date)
    IN  IF ~p.ok THEN 0
        ELSE IF After(today, p.ord)
             THEN LET weeks == (today.ord - p.ord) \div DaysPerWeek
                  IN  IF weeks > 0 /\ total_fee - total_paid > 0
                      THEN (total_fee - total_paid) * LateRatePercent * weeks
                      ELSE 0
             ELSE 0

\* 'break' in place of 'continue': the loop ends at the first due date that
\* does not parse
RECURSIVE LateFee_Break(_, _, _, _)
LateFee_Break(cycles, total_fee, total_paid, today) ==
    IF cycles = <<>> THEN 0
    ELSE IF ~StrpTime(Head(cycles).due_date).ok THEN 0
    ELSE CycleLateFee(Head(cycles).due_date, total_fee, total_paid, today)
         + LateFee_Break(Tail(cycles), total_fee, total_paid, today)

RECURSIVE LateFee(_, _, _, _)
LateFee(cycles, total_fee, total_paid, today) ==
    IF cycles = <<>> THEN 0
    ELSE CycleLateFee(Head(cycles).due_date, total_fee, total_paid, today)
         + LateFee(Tail(cycles), total_fee, total_paid, today)

\* the balance returned as computed, without the floor
FloorZero_NoFloor(total_due) == total_due

\* total_due if total_due > 0 else 0
FloorZero(total_due) == IF total_due > 0 THEN total_due ELSE 0

\* 'if not total_fee': a fee of 0 taken for a missing fee
IsAbsent_Falsy(fee) == fee.none \/ fee.val = 0

\* total_fee is None
IsAbsent(fee) == fee.none

DueAmount(st, fs, pay, cyc, today, adm) ==
    LET total_fee == TotalFee(st, fs, adm)
    IN  IF IsAbsent(total_fee) THEN NoneResult
        ELSE LET total_paid == TotalPaid(pay, adm)
                 late_fee == LateFee(RowsOf(cyc, adm), total_fee.val, total_paid, today)
             IN  Num(FloorZero((100 * total_fee.val + late_fee) - 100 * total_paid))

get_total_fee(adm) == TotalFee(students, fee_structure, adm)

get_total_paid(adm) == TotalPaid(payments, adm)

get_due_amount(adm) == DueAmount(students, fee_structure, payments, fee_cycles, now, adm)

(***************************************************************************)
(* Phone validation and the SMS boundary.                                  *)
(***************************************************************************)
\* the end of the match: '$' matches at the end of the string and also just
\* before a newline that ends the string
AtDollar(s, e) == e = Len(s) \/ (e + 1 = Len(s) /\ s[Len(s)] = "\n")

\* bool(PHONE_REGEX.match(phone)), PHONE_REGEX = ^\+?[1-9]\d{7,14}$
is_valid_phone(phone) ==
    LET p == IF phone # <<>> /\ phone[1] = "+" THEN 2 ELSE 1
    IN  /\ p <= Len(phone)
        /\ IsDigit(phone[p])
        /\ phone[p] # "0"
        /\ \E k \in PhoneMinMore..PhoneMaxMore :
              /\ p + k <= Len(phone)
              /\ AllDigits(phone, p + 1, p + k)
              /\ AtDollar(phone, p + k)

\* what Client(...).messages.create does with a message
TransportOutcomes == {"delivered", "TwilioRestException"}

\* send_sms without its except clause: the transport's exception leaves it
send_sms_NoCatch(env, to_phone, outcome) ==
    IF ~env THEN [ret |-> FALSE, transported |-> FALSE, raised |-> FALSE]
    ELSE IF ~is_valid_phone(to_phone)
         THEN [ret |-> FALSE, transported |-> FALSE, raised |-> FALSE]
    ELSE IF outcome = "delivered"
         THEN [ret |-> TRUE, transported |-> TRUE, raised |-> FALSE]
    ELSE [ret |-> FALSE, transported |-> TRUE, raised |-> TRUE]

\* send_sms: ret is the return value, transported tells whether the
\* transport was invoked, raised whether an exception left the function
send_sms(env, to_phone, outcome) ==
    IF ~env THEN [ret |-> FALSE, transported |-> FALSE, raised |-> FALSE]
    ELSE IF ~is_valid_phone(to_phone)
         THEN [ret |-> FALSE, transported |-> FALSE, raised |-> FALSE]
    ELSE IF outcome = "delivered"
         THEN [ret |-> TRUE, transported |-> TRUE, raised |-> FALSE]
    ELSE [ret |-> FALSE, transported |-> TRUE, raised |-> FALSE]

\* fee_row['fee_amount'] if fee_row else 0
InlineFee(fs, class) == IF class \in DOMAIN fs THEN fs[class] ELSE 0

\* the due amount the index page and the reminder loop compute inline
InlineDue(fs, pay, student) ==
    InlineFee(fs, student.class) - TotalPaid(pay, student.admission_no)

\* the loop of send_reminders from student i on: rows holds one record per
\* call of send_sms, sent is reminders_sent; an exception leaving send_sms
\* ends the loop and the request
RECURSIVE ReminderLoop(_, _, _, _, _, _, _)
ReminderLoop(st, fs, pay, env, outcomes, i, acc) ==
    IF i > Len(st) THEN acc
    ELSE LET due == InlineDue(fs, pay, st[i])
         IN  IF due > 0
             THEN LET r == send_sms(env, st[i].phone, outcomes[i])
                      row == [admission_no |-> st[i].admission_no,
                              phone |-> st[i].phone,
                              due |-> 100 * due,
                              ret |-> r.ret,
                              transported |-> r.transported]
                  IN  IF r.raised
                      THEN [rows |-> Append(acc.rows, row), sent |-> acc.sent,
                            aborted |-> TRUE]
                      ELSE ReminderLoop(st, fs, pay, env, outcomes, i + 1,
                                        [rows |-> Append(acc.rows, row),
                                         sent |-> acc.sent + 1,
                                         aborted |-> FALSE])
             ELSE ReminderLoop(st, fs, pay, env, outcomes, i + 1, acc)

\* the rows of the index page
RECURSIVE IndexRows(_, _, _, _)
IndexRows(st, fs, pay, i) ==
    IF i > Len(st) THEN <<>>
    ELSE <<[admission_no |-> st[i].admission_no,
            phone |-> st[i].phone,
            due |-> 100 * InlineDue(fs, pay, st[i]),
            ret |-> FALSE,
            transported |-> FALSE]>> \o IndexRows(st, fs, pay, i + 1)

(***************************************************************************)
(* Requests.  resp is what the last request produced: the handler, its     *)
(* argument, the value get_due_amount returned to it, the flashed status,  *)
(* the reminders_sent count and the rows it computed.                      *)
(***************************************************************************)
Resp(op, arg, ret, status, sent, rows) ==
    [op |-> op, arg |-> arg, ret |-> ret, status |-> status, sent |-> sent,
     rows |-> rows]

NoResp == Resp("none", <<>>, NoneResult, "none", 0, <<>>)

S_A1 == <<"A", "1">>
S_A2 == <<"A", "2">>
S_c1 == <<"c", "1">>
S_c2 == <<"c", "2">>
S_name == <<"n">>
PhoneOk == <<"+", "1", "2", "3", "4", "5", "6", "7", "8">>
PhoneLeadingZero == <<"0", "1", "2", "3", "4", "5", "6", "7", "8", "9">>

AdmInputs == {S_A1, S_A2, <<" ">> \o S_A1, <<>>}
ClassInputs == {S_c1, <<>>}
PhoneFormInputs == {PhoneOk \o <<"\n">>, PhoneLeadingZero, <<" ">>}
FeeInputs == {<<"5", "0">>, <<"1", "0", "0">>, <<"x">>, <<>>}
AmountInputs == {<<"4", "0">>, <<"-", "3", "0">>, <<"a">>}
DateInputs == {<<"2", "0", "2", "6", "-", "0", "1", "-", "0", "1">>, <<>>}

BaseOrd == ToOrdinal(2026, 1, 1)

add_student(adm_in, name_in, cls_in, phone_in) ==
    LET adm == Strip(adm_in)
        name == Strip(name_in)
        cls == Strip(cls_in)
        phone == Strip(phone_in)
    IN  /\ Len(students) < MaxStudents
        /\ IF adm = <<>> \/ name = <<>> \/ cls = <<>> \/ phone = <<>>
           THEN /\ resp' = Resp("add_student", adm, NoneResult, "required", 0, <<>>)
                /\ UNCHANGED students
           ELSE IF ~is_valid_phone(phone)
           THEN /\ resp' = Resp("add_student", adm, NoneResult, "invalid_phone", 0, <<>>)
                /\ UNCHANGED students
           ELSE IF RowsOf(students, adm) # <<>>
           THEN /\ resp' = Resp("add_student", adm, NoneResult, "exists", 0, <<>>)
                /\ UNCHANGED students
           ELSE /\ students' = Append(students,
                       [admission_no |-> adm, name |-> name, class |-> cls,
                        phone |-> phone])
                /\ resp' = Resp("add_student", adm, NoneResult, "success", 0, <<>>)
        /\ UNCHANGED <<fee_structure, payments, fee_cycles, now, twilio_env>>

set_fee(class_name, fee_amount) ==
    /\ IF class_name = <<>> \/ fee_amount = <<>>
       THEN /\ resp' = Resp("set_fee", class_name, NoneResult, "required", 0, <<>>)
            /\ UNCHANGED fee_structure
       ELSE IF ~FloatOf(fee_amount).ok
       THEN /\ resp' = Resp("set_fee", class_name, NoneResult, "ValueError", 0, <<>>)
            /\ UNCHANGED fee_structure
       ELSE /\ fee_structure' =
                  [c \in DOMAIN fee_structure \cup {class_name} |->
                      IF c = class_name THEN FloatOf(fee_amount).val
                      ELSE fee_structure[c]]
            /\ resp' = Resp("set_fee", class_name, NoneResult, "success", 0, <<>>)
    /\ UNCHANGED <<students, payments, fee_cycles, now, twilio_env>>

record_payment(admission_no, amount) ==
    /\ Len(payments) < MaxPayments
    /\ IF ~FloatOf(amount).ok
       THEN /\ resp' = Resp("record_payment", admission_no, NoneResult, "ValueError", 0, <<>>)
            /\ UNCHANGED payments
       ELSE IF RowsOf(students, admission_no) = <<>>
       THEN /\ resp' = Resp("record_payment", admission_no, NoneResult, "not_found", 0, <<>>)
            /\ UNCHANGED payments
       ELSE /\ payments' = Append(payments,
                   [admission_no |-> admission_no,
                    amount_paid |-> FloatOf(amount).val])
            /\ resp' = Resp("record_payment", admission_no, NoneResult, "success", 0, <<>>)
    /\ UNCHANGED <<students, fee_structure, fee_cycles, now, twilio_env>>

\* the calculator settling an overpayment by writing a payment row
receipt_Writes(admission_no) ==
    /\ resp' = Resp("receipt", admission_no, get_due_amount(admission_no), "ok", 0, <<>>)
    /\ payments' = Append(payments, [admission_no |-> admission_no, amount_paid |-> 0])
    /\ UNCHANGED <<students, fee_structure, fee_cycles, now, twilio_env>>

\* the call of get_due_amount(adm): the receipt page makes it
receipt(admission_no) ==
    /\ resp' = Resp("receipt", admission_no, get_due_amount(admission_no), "ok", 0, <<>>)
    /\ UNCHANGED <<students, fee_structure, payments, fee_cycles, now, twilio_env>>

check_due(admission_no_in) ==
    LET admission_no == Strip(admission_no_in)
    IN  /\ resp' = Resp("check_due", admission_no, NoneResult,
                        IF admission_no # <<>> /\ RowsOf(students, admission_no) = <<>>
                        THEN "not_found" ELSE "ok",
                        Len(RowsOf(fee_cycles, admission_no)), <<>>)
        /\ UNCHANGED <<students, fee_structure, payments, fee_cycles, now, twilio_env>>

index ==
    /\ resp' = Resp("index", <<>>, NoneResult, "ok", 0,
                    IndexRows(students, fee_structure, payments, 1))
    /\ UNCHANGED <<students, fee_structure, payments, fee_cycles, now, twilio_env>>

\* the TODO carried out: the due date saved as a cycle of every student
set_due_date_Stores(due_date) ==
    /\ resp' = Resp("set_due_date", due_date, NoneResult,
                    IF due_date = <<>> THEN "danger" ELSE "success", 0, <<>>)
    /\ fee_cycles' =
          IF due_date = <<>> THEN fee_cycles
          ELSE fee_cycles \o [i \in 1..Len(students) |->
                                [admission_no |-> students[i].admission_no,
                                 due_date |-> due_date]]
    /\ UNCHANGED <<students, fee_structure, payments, now, twilio_env>>

\* the due date is flashed and not stored
set_due_date(due_date) ==
    /\ resp' = Resp("set_due_date", due_date, NoneResult,
                    IF due_date = <<>> THEN "danger" ELSE "success", 0, <<>>)
    /\ UNCHANGED <<students, fee_structure, payments, fee_cycles, now, twilio_env>>

send_reminders ==
    \E outcomes \in [1..Len(students) -> TransportOutcomes] :
       LET r == ReminderLoop(students, fee_structure, payments, twilio_env,
                             outcomes, 1,
                             [rows |-> <<>>, sent |-> 0, aborted |-> FALSE])
       IN  /\ resp' = Resp("send_reminders", <<>>, NoneResult,
                           IF r.aborted THEN "exception" ELSE "success",
                           r.sent, r.rows)
           /\ UNCHANGED <<students, fee_structure, payments, fee_cycles, now,
                          twilio_env>>

\* the clock: datetime.now() of a later request
Tick ==
    /\ now.ord < BaseOrd + MaxTicks
    /\ now' = [ord |-> now.ord + 1, tod |-> now.tod]
    /\ UNCHANGED <<students, fee_structure, payments, fee_cycles, twilio_env, resp>>

\* init_db on a new database file
Init ==
    /\ students = <<>>
    /\ fee_structure = <<>>
    /\ payments = <<>>
    /\ fee_cycles = <<>>
    /\ now = [ord |-> BaseOrd, tod |-> 1]
    /\ twilio_env \in BOOLEAN
    /\ resp = NoResp

Next ==
    \/ \E a \in AdmInputs, c \in ClassInputs, p \in PhoneFormInputs :
          add_student(a, S_name, c, p)
    \/ \E c \in ClassInputs, f \in FeeInputs : set_fee(c, f)
    \/ \E a \in AdmInputs, m \in AmountInputs : record_payment(a, m)
    \/ \E a \in AdmInputs : receipt(a)
    \/ \E a \in AdmInputs : check_due(a)
    \/ index
    \/ \E d \in DateInputs : set_due_date(d)
    \/ send_reminders
    \/ Tick

Spec == Init /\ [][Next]_vars

(***************************************************************************)
(* The calculator on an arbitrary database: school_fees.db is a file that  *)
(* outlives the process, and its four tables hold whatever rows satisfy    *)
(* the schema.                                                             *)
(***************************************************************************)
BoundedSeq(S, n) == UNION {[1..k -> S] : k \in 0..n}

D_0101 == <<"2", "0", "2", "6", "-", "0", "1", "-", "0", "1">>
\* 8 January 2026, the month written without its leading zero
D_0108 == <<"2", "0", "2", "6", "-", "1", "-", "0", "8">>
D_word == <<"n", "o", "t", "-", "a", "-", "d", "a", "t", "e">>
D_0230 == <<"2", "0", "2", "6", "-", "0", "2", "-", "3", "0">>

StudentRow(adm, cls, phone) ==
    [admission_no |-> adm, name |-> S_name, class |-> cls, phone |-> phone]

CalcStudents ==
    {<<StudentRow(S_A2, S_c1, PhoneOk)>>,
     <<StudentRow(S_A1, S_c1, PhoneOk), StudentRow(S_A2, S_c1, PhoneOk)>>,
     <<StudentRow(S_A2, S_c1, PhoneOk), StudentRow(S_A1, S_c2, PhoneOk)>>}

FeeTable(f1, f2) ==
    [c \in {x \in {S_c1, S_c2} : (IF x = S_c1 THEN f1 ELSE f2) >= 0} |->
        IF c = S_c1 THEN f1 ELSE f2]

\* a fee of -1 stands for a class without a row
CalcFees == {FeeTable(f1, 100) : f1 \in {-1, 0, 50, 100}}

CalcPayRows ==
    {[admission_no |-> S_A1, amount_paid |-> 40],
     [admission_no |-> S_A1, amount_paid |-> -30],
     [admission_no |-> S_A2, amount_paid |-> 40]}

CalcCycleRows ==
    {[admission_no |-> S_A1, due_date |-> d] : d \in {D_0101, D_0108, D_word, D_0230}}
    \cup {[admission_no |-> S_A2, due_date |-> D_0101]}

CalcNows ==
    {[ord |-> BaseOrd, tod |-> 0], [ord |-> BaseOrd, tod |-> 1],
     [ord |-> BaseOrd + 13, tod |-> 1], [ord |-> BaseOrd + 14, tod |-> 0]}

InitCalc ==
    /\ students \in CalcStudents
    /\ fee_structure \in CalcFees
    /\ payments \in BoundedSeq(CalcPayRows, MaxPayments)
    /\ fee_cycles \in BoundedSeq(CalcCycleRows, MaxCycles)
    /\ now \in CalcNows
    /\ twilio_env = TRUE
    /\ resp = NoResp

NextCalc == \E a \in {S_A1, S_A2} : receipt(a)

SpecCalc == InitCalc /\ [][NextCalc]_vars

(***************************************************************************)
(* The reminder batch on an arbitrary database.                            *)
(***************************************************************************)
BatchStudentRows ==
    {StudentRow(a, c, p) : a \in {S_A1, S_A2}, c \in {S_c1, S_c2},
                           p \in {PhoneOk, PhoneLeadingZero}}

BatchFees == {FeeTable(f1, f2) : f1 \in {-1, 50, 100}, f2 \in {-1, 100}}

BatchPayRows ==
    {[admission_no |-> a, amount_paid |-> m] : a \in {S_A1, S_A2}, m \in {40, -30}}

InitBatch ==
    /\ students \in {st \in BoundedSeq(BatchStudentRows, MaxStudents) :
                        \A i, j \in 1..Len(st) :
                           st[i].admission_no = st[j].admission_no => i = j}
    /\ fee_structure \in BatchFees
    /\ payments \in BoundedSeq(BatchPayRows, MaxPayments)
    /\ fee_cycles \in {<<>>, <<[admission_no |-> S_A1, due_date |-> D_0101]>>}
    /\ now = [ord |-> BaseOrd + 14, tod |-> 1]
    /\ twilio_env \in BOOLEAN
    /\ resp = NoResp

NextBatch == send_reminders

SpecBatch == InitBatch /\ [][NextBatch]_vars

(***************************************************************************)
(* The phone validator on its own.                                         *)
(***************************************************************************)
RECURSIVE Repeat(_, _)
Repeat(c, n) == IF n = 0 THEN <<>> ELSE <<c>> \o Repeat(c, n - 1)

PhoneStrings ==
    {pre \o first \o Repeat(d, n) \o suf :
        pre \in {<<>>, <<"+">>, <<"+", "+">>},
        first \in {<<"1">>, <<"9">>, <<"0">>, <<"a">>, <<>>},
        d \in {"7"},
        n \in 0..MaxExtraDigits,
        suf \in {<<>>, <<"\n">>, <<"a">>, <<"\n", "\n">>}}

validate_phone(phone) ==
    /\ resp' = Resp("is_valid_phone", phone, NoneResult,
                    IF is_valid_phone(phone) THEN "valid" ELSE "invalid", 0, <<>>)
    /\ UNCHANGED <<students, fee_structure, payments, fee_cycles, now, twilio_env>>

InitPhone ==
    /\ students = <<>>
    /\ fee_structure = <<>>
    /\ payments = <<>>
    /\ fee_cycles = <<>>
    /\ now = [ord |-> BaseOrd, tod |-> 1]
    /\ twilio_env = TRUE
    /\ resp = NoResp

NextPhone == \E s \in PhoneStrings : validate_phone(s)

SpecPhone == InitPhone /\ [][NextPhone]_vars

(***************************************************************************)
(* Properties.                                                             *)
(***************************************************************************)
Max0(x) == IF x > 0 THEN x ELSE 0

RECURSIVE SumSet(_, _)
SumSet(S, f) ==
    IF S = {} THEN 0
    ELSE LET x == CHOOSE x \in S : TRUE IN f[x] + SumSet(S \ {x}, f)

\* the student adm exists and its class has a fee
Configured(adm) ==
    \E i \in 1..Len(students) :
       /\ students[i].admission_no = adm
       /\ students[i].class \in DOMAIN fee_structure

\* the fee F of a configured student and the total P of its payments
FeeOf(adm) ==
    LET i == CHOOSE i \in 1..Len(students) : students[i].admission_no = adm
    IN  fee_structure[students[i].class]

PaidBy(adm) ==
    SumSet({i \in 1..Len(payments) : payments[i].admission_no = adm},
           [i \in 1..Len(payments) |-> payments[i].amount_paid])

\* the cycles of adm whose due date parses and lies strictly before now
OverdueCycles(adm) ==
    {i \in 1..Len(fee_cycles) :
        /\ fee_cycles[i].admission_no = adm
        /\ StrpTime(fee_cycles[i].due_date).ok
        /\ \/ StrpTime(fee_cycles[i].due_date).ord < now.ord
           \/ (StrpTime(fee_cycles[i].due_date).ord = now.ord /\ now.tod > 0)}

WeeksLate(i) == (now.ord - StrpTime(fee_cycles[i].due_date).ord) \div 7

\* L of the late-fee formula, in hundredths
ClaimLateFee(adm) ==
    SumSet(OverdueCycles(adm),
           [i \in 1..Len(fee_cycles) |->
               IF WeeksLate(i) > 0 /\ FeeOf(adm) - PaidBy(adm) > 0
               THEN (FeeOf(adm) - PaidBy(adm)) * 2 * WeeksLate(i)
               ELSE 0])

Called == resp.op = "receipt"

\* C1: get_due_amount returns None or an amount >= 0, never a negative
\* amount, also for an overpaid student.
C1_NonNegative == Called => (resp.ret.none \/ resp.ret.val >= 0)

\* an overpaid student was asked for and the answer is 0
C1_Witness ==
    /\ Called
    /\ Configured(resp.arg)
    /\ PaidBy(resp.arg) > FeeOf(resp.arg)
    /\ resp.ret = Num(0)

\* C2: get_due_amount returns None exactly when the student does not exist
\* or its class has no fee, whatever its payments and cycles; otherwise the
\* result is a number.
C2_AbsenceExactly == Called => (resp.ret.none <=> ~Configured(resp.arg))

\* a student with payments and cycles whose class has no fee got None
C2_Witness ==
    /\ Called
    /\ resp.ret.none
    /\ \E i \in 1..Len(students) : students[i].admission_no = resp.arg
    /\ RowsOf(payments, resp.arg) # <<>>
    /\ RowsOf(fee_cycles, resp.arg) # <<>>

\* C3: for a configured student the result is max(0, F + L - P), L summing
\* (F - P) * 0.02 * floor(days / 7) over the parsed overdue cycles; two
\* cycles 2 weeks late with F = 100, P = 40 give 64.80, and 13 days late is
\* one week.
C3_Formula ==
    (Called /\ Configured(resp.arg)) =>
       /\ resp.ret = Num(Max0(100 * FeeOf(resp.arg) + ClaimLateFee(resp.arg)
                              - 100 * PaidBy(resp.arg)))
       /\ (/\ FeeOf(resp.arg) = 100
           /\ PaidBy(resp.arg) = 40
           /\ RowsOf(fee_cycles, resp.arg) =
                 <<[admission_no |-> resp.arg, due_date |-> D_0101],
                   [admission_no |-> resp.arg, due_date |-> D_0101]>>
           /\ now.ord = BaseOrd + 14) => resp.ret = Num(6480)
       /\ (/\ FeeOf(resp.arg) = 100
           /\ PaidBy(resp.arg) = 40
           /\ RowsOf(fee_cycles, resp.arg) =
                 <<[admission_no |-> resp.arg, due_date |-> D_0101],
                   [admission_no |-> resp.arg, due_date |-> D_0108]>>
           /\ now.ord = BaseOrd + 13) => resp.ret = Num(6120)

\* the two cycles 2 weeks late, F = 100, P = 40, answer 64.80
C3_Witness ==
    /\ Called
    /\ Configured(resp.arg)
    /\ FeeOf(resp.arg) = 100
    /\ PaidBy(resp.arg) = 40
    /\ RowsOf(fee_cycles, resp.arg) =
          <<[admission_no |-> resp.arg, due_date |-> D_0101],
            [admission_no |-> resp.arg, due_date |-> D_0101]>>
    /\ now.ord = BaseOrd + 14
    /\ resp.ret = Num(6480)

\* the cycle table without its row i
WithoutRow(table, i) == SubSeq(table, 1, i - 1) \o SubSeq(table, i + 1, Len(table))

Malformed(i) ==
    /\ fee_cycles[i].admission_no = resp.arg
    /\ ~StrpTime(fee_cycles[i].due_date).ok

\* C4: a cycle whose due date does not parse is skipped: the call completes
\* and its result is the result for the same database without that cycle,
\* wherever the cycle stands in the list.
C4_MalformedSkipped ==
    Called =>
       /\ resp.status = "ok"
       /\ \A i \in 1..Len(fee_cycles) :
             Malformed(i) =>
                resp.ret = DueAmount(students, fee_structure, payments,
                                     WithoutRow(fee_cycles, i), now, resp.arg)

\* a malformed cycle stands before a valid overdue one that adds a late fee
C4_Witness ==
    /\ Called
    /\ Len(fee_cycles) = 2
    /\ Malformed(1)
    /\ 2 \in OverdueCycles(resp.arg)
    /\ ~resp.ret.none
    /\ resp.ret.val > 100 * (FeeOf(resp.arg) - PaidBy(resp.arg))

\* optional '+', one digit 1-9, 7 to 14 further digits and nothing else
PhoneFormat(s) ==
    LET body == IF s # <<>> /\ s[1] = "+" THEN Tail(s) ELSE s
    IN  /\ Len(body) >= 8
        /\ Len(body) <= 15
        /\ \A i \in 1..Len(body) : IsDigit(body[i])
        /\ body[1] # "0"

\* C5: is_valid_phone(s) is true exactly when s is an optional '+', a digit
\* 1-9 and 7 to 14 further digits and nothing else.
C5_PhoneExactly ==
    resp.op = "is_valid_phone" => (resp.status = "valid" <=> PhoneFormat(resp.arg))

\* the rows of the batch that belong to student adm
AttemptsFor(adm) == {k \in 1..Len(resp.rows) : resp.rows[k].admission_no = adm}

Batch == resp.op = "send_reminders"

\* C6: send_reminders dispatches a reminder for a student exactly when
\* get_due_amount of that student is positive, and the amount of the message
\* is that due amount.
C6_UsesCalculator ==
    Batch =>
       \A i \in 1..Len(students) :
          LET adm == students[i].admission_no
              due == get_due_amount(adm)
          IN  /\ (AttemptsFor(adm) # {}) <=> (~due.none /\ due.val > 0)
              /\ \A k \in AttemptsFor(adm) : resp.rows[k].due = due.val

\* C7: get_due_amount is read-only: the call leaves students, fee schedule,
\* payments and cycles as they were, so that a second call at the same time
\* returns what the first returned.
C7_ReadOnly ==
    [][(resp'.op = "receipt" /\ now' = now) =>
          /\ store' = store
          /\ resp'.ret = DueAmount(students', fee_structure', payments',
                                   fee_cycles', now', resp'.arg)]_vars

\* the calculator returned an amount for a student with payments
C7_Witness ==
    /\ Called
    /\ ~resp.ret.none
    /\ RowsOf(payments, resp.arg) # <<>>
    /\ resp.ret.val > 0

C9_SentCount ==
    Batch => resp.sent = Cardinality({k \in 1..Len(resp.rows) : resp.rows[k].ret})

\* C10: from the empty database no operation inserts a cycle, so fee_cycles
\* stays empty and get_due_amount of a configured student is max(0, F - P).
C10_NoCycles ==
    /\ fee_cycles = <<>>
    /\ \A i \in 1..Len(students) :
          Configured(students[i].admission_no) =>
             get_due_amount(students[i].admission_no) =
                Num(Max0(100 * (FeeOf(students[i].admission_no)
                                - PaidBy(students[i].admission_no))))

\* a due date was submitted and accepted for a database with a configured
\* student who has paid part of the fee
C10_Witness ==
    /\ resp.op = "set_due_date"
    /\ resp.status = "success"
    /\ \E i \in 1..Len(students) :
          /\ Configured(students[i].admission_no)
          /\ PaidBy(students[i].admission_no) > 0
          /\ get_due_amount(students[i].admission_no).val > 0

=============================================================================
